---- MODULE Spec2Model ----
(***************************************************************************)
(* A model of src/Promise.js: the Promise state machine (resolve, reject,  *)
(* run), the chaining operator (then, makeCallback) and the assimilation   *)
(* of returned promises and foreign thenables (resolveThenable).           *)
(*                                                                         *)
(* JavaScript is single threaded: every action below is one whole call     *)
(* stack (an external call, one setTimeout task, or a call made later by a *)
(* foreign thenable), executed atomically.                                 *)
(***************************************************************************)
EXTENDS Integers, Sequences, FiniteSets, TLC

\* ---------------------------------------------------------------- bounds
MaxRoots == 2       \* promises made by Promise.defer / Promise.resolve / Promise.reject
MaxThen == 2        \* external calls of then
MaxSettle == 2      \* external calls of a Deferred's resolve / reject
MaxLater == 2       \* capability calls a foreign thenable makes from a later call stack
MaxSyncCalls == 2   \* capability calls a foreign thenable makes inside one x.then
MaxThenableThen == 1 \* external calls of then whose handlers return a foreign thenable
MaxStatic == 1      \* calls of Promise.race / Promise.all
MaxLength == 2      \* length of the iterable given to Promise.race / Promise.all

\* ---------------------------------------------------------------- values
Status == [PENDING |-> "pending", FULLFILLED |-> "resolved", REJECTED |-> "rejected"]

Val(n) == [k |-> "value", n |-> n]
Undefined == [k |-> "undefined", n |-> 0]
PromiseRef(p) == [k |-> "promise", n |-> p]
Thenable(t) == [k |-> "thenable", n |-> t]
LatchRef(l) == [k |-> "latch", n |-> l]
\* new TypeError('... could not be same with the promise')
TypeErrorSamePromise == [k |-> "TypeError", n |-> 1]
\* new TypeError('... could not be same with the previous thenable object')
TypeErrorSameThenable == [k |-> "TypeError", n |-> 2]
\* Plain values, each made in one place only, so that a value found in a promise
\* tells where it came from. Val(n), n >= 1: the argument of the n-th settling call
\* the program makes.
HandlerValue == Val(0)                      \* returned by a handler
HandlerError == [k |-> "error", n |-> 1]    \* thrown by a handler
ThenValue == [k |-> "value", n |-> -1]      \* passed to resolvePromise by a thenable
ThenReason == [k |-> "error", n |-> 2]      \* passed to rejectPromise by a thenable
ThenError == [k |-> "error", n |-> 0]       \* thrown by a thenable's `then` (getter or method)
ThenableIds == {1, 2}
\* a plain value that is an element of an iterable
Item == [k |-> "item", n |-> 0]
\* the array `result` of Promise.all; index 0 of the source is index 1 here
Array(items) == [k |-> "array", n |-> items]

\* ---------------------------------------------------------------- handlers
\* What is passed to then as onResolve / onReject, by what it does when called.
Null == [h |-> "null", v |-> Undefined]
Return(v) == [h |-> "return", v |-> v]
Throw(v) == [h |-> "throw", v |-> v]
\* function (data) { resolve(promise, data); } and function (reason) { reject(promise, reason); }
SettleResolve(p) == [h |-> "settleResolve", v |-> PromiseRef(p)]
SettleReject(p) == [h |-> "settleReject", v |-> PromiseRef(p)]
\* the two capabilities handed to x.then, closed over one `invoked` latch
ResolvePromise(l) == [h |-> "resolvePromise", v |-> LatchRef(l)]
RejectPromise(l) == [h |-> "rejectPromise", v |-> LatchRef(l)]
\* the two callbacks of the r-th call of Promise.race, closed over its `settled`
ResolveRaceCallback(r) == [h |-> "resolveRaceCallback", v |-> [k |-> "race", n |-> r]]
RejectRaceCallback(r) == [h |-> "rejectRaceCallback", v |-> [k |-> "race", n |-> r]]
\* makeAllCallback(iterate, index, action) of the a-th call of Promise.all
MakeAllCallback(a, index, action) ==
    [h |-> "allCallback", v |-> [k |-> "all", n |-> a, index |-> index, action |-> action]]

\* a foreign object whose `then` is no function
Inert == [get |-> "notfunction", calls |-> <<>>, throws |-> FALSE]

VARIABLES
    _status,        \* promise id -> its _status
    _value,         \* promise id -> its _value
    _doneCallbacks, \* promise id -> its _doneCallbacks
    _failCallbacks, \* promise id -> its _failCallbacks
    timers,         \* the setTimeout queue: tasks scheduled by run, oldest first; `fresh`
                    \* marks a task scheduled by the call stack that is still running
    latches,        \* one entry per then.call: the `invoked` flag and its closure (x, promise)
    fired,          \* history: promise id -> the promiseCallbacks of its then calls that were
                    \* invoked, in the order of their invocation
    capCalls,       \* history: the capability calls made during the call stack that ran last
    uncaught,       \* exceptions that left the core's code towards a foreign caller
    regOn,          \* promise id -> the promise whose then created it (0: no then)
    races,          \* one entry per call of Promise.race: its `promise` and `settled`, and
                    \* as history the promises it called then on and which of them (by
                    \* index) were settled then, and the value the call returned
    alls,           \* one entry per call of Promise.all: its `promise`, `length`, `result`
                    \* and `count`, and as history the promises it called then on, the
                    \* index whose reject callback was invoked first, and the value returned
    known,          \* the promises the program holds: returned by defer, resolve, reject, then
    deferreds,      \* the promises whose Deferred the program holds
    nThen, nSettle, nLater

vars == <<_status, _value, _doneCallbacks, _failCallbacks, timers, latches, fired,
          capCalls, uncaught, regOn, races, alls, known, deferreds,
          nThen, nSettle, nLater>>

\* The heap as one record, so that the functions of the source are operators on it.
Heap ==
    [status |-> _status, value |-> _value, doneCallbacks |-> _doneCallbacks,
     failCallbacks |-> _failCallbacks, timers |-> timers, latches |-> latches,
     fired |-> fired, capCalls |-> {}, uncaught |-> uncaught, regOn |-> regOn,
     races |-> races, alls |-> alls]

Commit(H) ==
    /\ _status' = H.status
    /\ _value' = H.value
    /\ _doneCallbacks' = H.doneCallbacks
    /\ _failCallbacks' = H.failCallbacks
    /\ timers' = [i \in DOMAIN H.timers |-> [H.timers[i] EXCEPT !.fresh = FALSE]]
    /\ latches' = H.latches
    /\ fired' = H.fired
    /\ capCalls' = H.capCalls
    /\ uncaught' = H.uncaught
    /\ regOn' = H.regOn
    /\ races' = H.races
    /\ alls' = H.alls

Promises == 1..Len(_status)
Roots == {p \in Promises : regOn[p] = 0}

RECURSIVE invokeAll(_, _, _, _, _)
RECURSIVE resolveThenable(_, _, _, _)

\* ---------------------------------------------------------------- state machine
\* new Promise(empty): a pending promise with no callbacks
newPromise(H) ==
    [H EXCEPT !.status = Append(@, Status.PENDING),
              !.value = Append(@, Undefined),
              !.doneCallbacks = Append(@, <<>>),
              !.failCallbacks = Append(@, <<>>),
              !.regOn = Append(@, 0),
              !.fired = Append(@, <<>>)]

\* run calling the callbacks itself instead of handing them to setTimeout
run_sync(H, promise) ==
    IF H.status[promise] = Status.PENDING
    THEN H
    ELSE LET callbacks == IF H.status[promise] = Status.FULLFILLED
                          THEN H.doneCallbacks[promise]
                          ELSE H.failCallbacks[promise]
         IN invokeAll([H EXCEPT !.doneCallbacks[promise] = <<>>,
                                !.failCallbacks[promise] = <<>>],
                      callbacks, H.value[promise], TRUE, <<Inert, Inert>>)

\* run leaving the two callback lists as they are
run_noClear(H, promise) ==
    IF H.status[promise] = Status.PENDING
    THEN H
    ELSE LET callbacks == IF H.status[promise] = Status.FULLFILLED
                          THEN H.doneCallbacks[promise]
                          ELSE H.failCallbacks[promise]
         IN [H EXCEPT !.timers = Append(@, [callbacks |-> callbacks,
                                             value |-> H.value[promise],
                                             fresh |-> TRUE])]

\* run emptying only the list it hands to setTimeout
run_clearDispatched(H, promise) ==
    IF H.status[promise] = Status.PENDING
    THEN H
    ELSE IF H.status[promise] = Status.FULLFILLED
    THEN [H EXCEPT !.timers = Append(@, [callbacks |-> H.doneCallbacks[promise],
                                         value |-> H.value[promise],
                                         fresh |-> TRUE]),
                   !.doneCallbacks[promise] = <<>>]
    ELSE [H EXCEPT !.timers = Append(@, [callbacks |-> H.failCallbacks[promise],
                                         value |-> H.value[promise],
                                         fresh |-> TRUE]),
                   !.failCallbacks[promise] = <<>>]

run(H, promise) ==
    IF H.status[promise] = Status.PENDING
    THEN H
    ELSE LET callbacks == IF H.status[promise] = Status.FULLFILLED
                          THEN H.doneCallbacks[promise]
                          ELSE H.failCallbacks[promise]
         IN [H EXCEPT !.timers = Append(@, [callbacks |-> callbacks,
                                             value |-> H.value[promise],
                                             fresh |-> TRUE]),
                      !.doneCallbacks[promise] = <<>>,
                      !.failCallbacks[promise] = <<>>]

\* resolve without the check of _status
resolve_noGuard(H, promise, data) ==
    run([H EXCEPT !.status[promise] = Status.FULLFILLED, !.value[promise] = data], promise)

resolve(H, promise, data) ==
    IF H.status[promise] # Status.PENDING
    THEN H
    ELSE run([H EXCEPT !.status[promise] = Status.FULLFILLED,
                       !.value[promise] = data], promise)

\* reject without the check of _status
reject_noGuard(H, promise, reason) ==
    run([H EXCEPT !.status[promise] = Status.REJECTED, !.value[promise] = reason], promise)

reject(H, promise, reason) ==
    IF H.status[promise] # Status.PENDING
    THEN H
    ELSE run([H EXCEPT !.status[promise] = Status.REJECTED,
                       !.value[promise] = reason], promise)

makeCallback(promise, callback, action) ==
    [promise |-> promise, callback |-> callback, action |-> action]

\* then putting the new callbacks in front of the lists
then_unshift(H, this, onResolve, onReject) ==
    LET H1 == newPromise(H)
        promise == Len(H1.status)
    IN run([H1 EXCEPT
              !.regOn[promise] = this,
              !.doneCallbacks[this] = <<makeCallback(promise, onResolve, "resolve")>> \o @,
              !.failCallbacks[this] = <<makeCallback(promise, onReject, "reject")>> \o @],
           this)

\* then without its closing call of run
then_noRun(H, this, onResolve, onReject) ==
    LET H1 == newPromise(H)
        promise == Len(H1.status)
    IN [H1 EXCEPT
          !.regOn[promise] = this,
          !.doneCallbacks[this] = Append(@, makeCallback(promise, onResolve, "resolve")),
          !.failCallbacks[this] = Append(@, makeCallback(promise, onReject, "reject"))]

\* Promise.prototype.then; the promise it returns is the newest one
then(H, this, onResolve, onReject) ==
    LET H1 == newPromise(H)
        promise == Len(H1.status)
    IN run([H1 EXCEPT
              !.regOn[promise] = this,
              !.doneCallbacks[this] = Append(@, makeCallback(promise, onResolve, "resolve")),
              !.failCallbacks[this] = Append(@, makeCallback(promise, onReject, "reject"))],
           this)

\* ---------------------------------------------------------------- race and all
\* `iterate` of the loops of race and all: the element, or Promise.resolve(element)
\* when the element is no Promise; coerce is the heap after it, iterateOf the promise
coerce(H, iterate) ==
    IF iterate.k = "promise" THEN H
    ELSE resolve(newPromise(H), Len(H.status) + 1, iterate)

iterateOf(H, iterate) ==
    IF iterate.k = "promise" THEN iterate.n ELSE Len(H.status) + 1

\* var promise = new Promise(empty) and `settled` of a call of race; the function
\* has no return statement
newRace(H) ==
    [H EXCEPT !.races = Append(@, [promise |-> Len(H.status), settled |-> FALSE,
                                   inputs |-> <<>>, atCall |-> {},
                                   returned |-> Undefined])]

\* history: race r calls then on promise p
raceInput(H, r, p) ==
    [H EXCEPT !.races[r].inputs = Append(@, p),
              !.races[r].atCall = IF H.status[p] # Status.PENDING
                                  THEN @ \cup {Len(H.races[r].inputs) + 1} ELSE @]

\* one turn of the loop of race
raceStep(H, r, iterate) ==
    then(raceInput(coerce(H, iterate), r, iterateOf(H, iterate)), iterateOf(H, iterate),
         ResolveRaceCallback(r), RejectRaceCallback(r))

RECURSIVE raceLoop(_, _, _, _)
raceLoop(H, r, iterable, i) ==
    IF i > Len(iterable) THEN H
    ELSE raceLoop(raceStep(H, r, iterable[i]), r, iterable, i + 1)

\* Promise.race(iterable), iterable with a length
race(H, iterable) ==
    raceLoop(newRace(newPromise(H)), Len(H.races) + 1, iterable, 1)

\* resolveRaceCallback settling also when another input settled the race before
resolveRaceCallback_last(H, r, data) ==
    resolve_noGuard([H EXCEPT !.races[r].settled = TRUE], H.races[r].promise, data)

resolveRaceCallback(H, r, data) ==
    IF H.races[r].settled THEN H
    ELSE resolve([H EXCEPT !.races[r].settled = TRUE], H.races[r].promise, data)

rejectRaceCallback(H, r, reason) ==
    IF H.races[r].settled THEN H
    ELSE reject([H EXCEPT !.races[r].settled = TRUE], H.races[r].promise, reason)

\* var promise = new Promise(empty), `length`, `result` and `count` of a call of
\* all; the function has no return statement
newAll(H, length) ==
    [H EXCEPT !.alls = Append(@, [promise |-> Len(H.status), length |-> length,
                                  result |-> [i \in 1..length |-> Undefined], count |-> 0,
                                  inputs |-> <<>>, firstRejected |-> 0,
                                  returned |-> Undefined])]

\* history: all a calls then on promise p
allInput(H, a, p) ==
    [H EXCEPT !.alls[a].inputs = Append(@, p)]

\* one turn of the loop of all
allStep(H, a, iterate, i) ==
    then(allInput(coerce(H, iterate), a, iterateOf(H, iterate)), iterateOf(H, iterate),
         MakeAllCallback(a, i, "resolve"), MakeAllCallback(a, i, "reject"))

RECURSIVE allLoop(_, _, _, _)
allLoop(H, a, iterable, i) ==
    IF i > Len(iterable) THEN H
    ELSE allLoop(allStep(H, a, iterable[i], i), a, iterable, i + 1)

\* Promise.all(iterable), iterable with a length
all(H, iterable) ==
    allLoop(newAll(newPromise(H), Len(iterable)), Len(H.alls) + 1, iterable, 1)

\* history: the reject callback of index `index` of all a is invoked
allRejected(H, a, index) ==
    [H EXCEPT !.alls[a].firstRejected = IF @ = 0 THEN index ELSE @]

\* the callback storing the value at the end of `result`, in the order of completion
allCallback_push(H, a, index, action, value) ==
    IF action = "reject"
    THEN reject(allRejected(H, a, index), H.alls[a].promise, value)
    ELSE LET H1 == [H EXCEPT !.alls[a].result[H.alls[a].count + 1] = value,
                             !.alls[a].count = @ + 1]
         IN IF H1.alls[a].count = H1.alls[a].length
            THEN resolve(H1, H1.alls[a].promise, Array(H1.alls[a].result))
            ELSE H1

\* the callback whose reject branch settles the promise whatever its status
allCallback_override(H, a, index, action, value) ==
    IF action = "reject"
    THEN reject_noGuard(allRejected(H, a, index), H.alls[a].promise, value)
    ELSE LET H1 == [H EXCEPT !.alls[a].result[index] = value,
                             !.alls[a].count = @ + 1]
         IN IF H1.alls[a].count = H1.alls[a].length
            THEN resolve(H1, H1.alls[a].promise, Array(H1.alls[a].result))
            ELSE H1

\* the function makeAllCallback(iterate, index, action) returns, called with value
allCallback(H, a, index, action, value) ==
    IF action = "reject"
    THEN reject(allRejected(H, a, index), H.alls[a].promise, value)
    ELSE LET H1 == [H EXCEPT !.alls[a].result[index] = value,
                             !.alls[a].count = @ + 1]
         IN IF H1.alls[a].count = H1.alls[a].length
            THEN resolve(H1, H1.alls[a].promise, Array(H1.alls[a].result))
            ELSE H1

\* ---------------------------------------------------------------- foreign thenables
\* What x.then does when the core calls it (lines 348 and 361): reading `then`
\* throws, `then` is no function, or `then` makes the capability calls of `calls`
\* one after the other and then returns or throws. An exception thrown by a
\* capability is not caught by the thenable: it ends x.then.
Call(cap, y) == [cap |-> cap, y |-> y]

\* arguments thenable t passes to resolvePromise: a plain value, itself, and for the
\* outer thenable the thenable nested in it (so that synchronous assimilation ends)
\* or a promise of the program, the one its then settles among them
ResolveArgs(t, promises) ==
    {ThenValue, Thenable(t)}
        \cup (IF t = 1 THEN {Thenable(2)} \cup {PromiseRef(p) : p \in promises} ELSE {})

CallsOf(t, promises) ==
    {Call("rejectPromise", ThenReason)}
        \cup {Call("resolvePromise", y) : y \in ResolveArgs(t, promises)}

RECURSIVE Scripts(_, _)
Scripts(C, n) ==
    IF n = 0 THEN {<<>>}
    ELSE LET S == Scripts(C, n - 1) IN S \cup {<<c>> \o s : c \in C, s \in {s \in S : Len(s) = n - 1}}

Behaviours(t, promises) ==
    {Inert, [get |-> "throws", calls |-> <<>>, throws |-> FALSE]}
        \cup [get : {"function"}, calls : Scripts(CallsOf(t, promises), MaxSyncCalls),
              throws : BOOLEAN]

\* the thenables a sequence of capability calls hands on
Mentions(calls) ==
    {calls[i].y.n : i \in {i \in DOMAIN calls : calls[i].y.k = "thenable"}}

\* ---------------------------------------------------------------- resolution
\* the returned promise taken as a plain value
bindPromise_asValue(H, promise, x) ==
    resolve(H, promise, x)

\* `x instanceof Promise` branch of promiseCallback
bindPromise(H, promise, x) ==
    then(H, x.n, SettleResolve(promise), SettleReject(promise))

\* resolvePromise, the first function handed to then.call; result: the heap, whether
\* it threw, and the thrown value
resolvePromise(H, l, y, beh) ==
    IF H.latches[l].invoked
    THEN [H |-> H, threw |-> FALSE, x |-> Undefined]
    ELSE LET H1 == [H EXCEPT !.latches[l].invoked = TRUE]
         IN IF y = H.latches[l].x
            THEN [H |-> H1, threw |-> TRUE, x |-> TypeErrorSameThenable]
            ELSE [H |-> resolveThenable(H1, H.latches[l].promise, y, beh),
                  threw |-> FALSE, x |-> Undefined]

\* rejectPromise without the check of `invoked`
rejectPromise_noLatch(H, l, e) ==
    [H |-> reject([H EXCEPT !.latches[l].invoked = TRUE], H.latches[l].promise, e),
     threw |-> FALSE, x |-> Undefined]

\* rejectPromise, the second function handed to then.call
rejectPromise(H, l, e) ==
    IF H.latches[l].invoked
    THEN [H |-> H, threw |-> FALSE, x |-> Undefined]
    ELSE [H |-> reject([H EXCEPT !.latches[l].invoked = TRUE], H.latches[l].promise, e),
          threw |-> FALSE, x |-> Undefined]

\* The outcome r of a call of a capability of latch l in heap H, noted in capCalls:
\* which capability and argument, whether the latch was set already, whether y is
\* the thenable itself, whether y is the downstream promise, whether the call changed
\* the downstream promise, that promise after the call, whether the call threw.
noted(H, l, cap, y, r) ==
    [r EXCEPT !.H.capCalls =
        @ \cup {[cap |-> cap,
                 y |-> y,
                 own |-> y = PromiseRef(H.latches[l].promise),
                 wasInvoked |-> H.latches[l].invoked,
                 self |-> y = H.latches[l].x,
                 changed |-> <<H.status[H.latches[l].promise], H.value[H.latches[l].promise]>>
                             # <<r.H.status[H.latches[l].promise],
                                 r.H.value[H.latches[l].promise]>>,
                 after |-> <<r.H.status[H.latches[l].promise],
                             r.H.value[H.latches[l].promise]>>,
                 threw |-> r.threw]}]

\* one call of a capability of latch l
callCapability(H, l, cap, y, beh) ==
    noted(H, l, cap, y, IF cap = "resolvePromise" THEN resolvePromise(H, l, y, beh)
                                                  ELSE rejectPromise(H, l, y))

\* the body of a foreign x.then: its synchronous capability calls, in order
RECURSIVE thenCall(_, _, _, _)
\* r: the outcome of the call before; an exception it threw ends x.then
thenRest(r, l, calls, beh) ==
    IF r.threw THEN r ELSE thenCall(r.H, l, calls, beh)

thenCall(H, l, calls, beh) ==
    IF calls = <<>>
    THEN [H |-> H, threw |-> FALSE, x |-> Undefined]
    ELSE thenRest(callCapability(H, l, Head(calls).cap, Head(calls).y, beh),
                  l, Tail(calls), beh)

\* the catch around then.call: r is the outcome of the capability calls x.then
\* made, `throws` whether x.then threw after them
afterThenCall(r, promise, l, throws) ==
    IF (r.threw \/ throws) /\ ~r.H.latches[l].invoked
    THEN reject(r.H, promise, IF r.threw THEN r.x ELSE ThenError)
    ELSE r.H

\* a new `invoked` flag, false, for a then.call on x that settles promise
newLatch(H, promise, x) ==
    [H EXCEPT !.latches = Append(@, [invoked |-> FALSE, x |-> x, promise |-> promise])]

resolveThenable(H, promise, x, beh) ==
    IF x.k = "promise"
    THEN \* x.then is Promise.prototype.then: a function that does not throw
         then(newLatch(H, promise, x), x.n,
              ResolvePromise(Len(H.latches) + 1), RejectPromise(Len(H.latches) + 1))
    ELSE IF x.k = "thenable"
    THEN IF beh[x.n].get = "throws" THEN reject(H, promise, ThenError)
         ELSE IF beh[x.n].get = "notfunction" THEN resolve(H, promise, x)
         ELSE afterThenCall(thenCall(newLatch(H, promise, x), Len(H.latches) + 1,
                                     beh[x.n].calls, beh),
                            promise, Len(H.latches) + 1, beh[x.n].throws)
    ELSE resolve(H, promise, x)

\* the return value handled without the `x === promise` check
handleReturn_noSelfCheck(H, promise, x, beh) ==
    IF x.k = "promise"
    THEN bindPromise(H, promise, x)
    ELSE resolveThenable(H, promise, x, beh)

\* what promiseCallback does with the return value x of the callback
handleReturn(H, promise, x, beh) ==
    IF x = PromiseRef(promise)
    THEN reject(H, promise, TypeErrorSamePromise)
    ELSE IF x.k = "promise"
    THEN bindPromise(H, promise, x)
    ELSE resolveThenable(H, promise, x, beh)

\* x = callback(value): the result is the heap, whether the call threw, and the
\* value returned or thrown
callHandler(H, callback, value, beh) ==
    CASE callback.h = "return" -> [H |-> H, threw |-> FALSE, x |-> callback.v]
      [] callback.h = "throw" -> [H |-> H, threw |-> TRUE, x |-> callback.v]
      [] callback.h = "settleResolve" ->
            [H |-> resolve(H, callback.v.n, value), threw |-> FALSE, x |-> Undefined]
      [] callback.h = "settleReject" ->
            [H |-> reject(H, callback.v.n, value), threw |-> FALSE, x |-> Undefined]
      [] callback.h \in {"resolvePromise", "rejectPromise"} ->
            callCapability(H, callback.v.n, callback.h, value, beh)
      [] callback.h = "resolveRaceCallback" ->
            [H |-> resolveRaceCallback(H, callback.v.n, value),
             threw |-> FALSE, x |-> Undefined]
      [] callback.h = "rejectRaceCallback" ->
            [H |-> rejectRaceCallback(H, callback.v.n, value),
             threw |-> FALSE, x |-> Undefined]
      [] callback.h = "allCallback" ->
            [H |-> allCallback(H, callback.v.n, callback.v.index, callback.v.action, value),
             threw |-> FALSE, x |-> Undefined]

\* callback not a function: the value handed on as a fulfilment, whatever the action
passThrough_resolves(H, promise, action, value) ==
    resolve(H, promise, value)

\* callback not a function: hand the value on
passThrough(H, promise, action, value) ==
    IF action = "resolve" THEN resolve(H, promise, value) ELSE reject(H, promise, value)

\* promiseCallback after x = callback(value): r is the outcome of that call
afterCall(r, promise, beh) ==
    handleReturn(IF r.threw THEN reject(r.H, promise, r.x) ELSE r.H,
                 promise,
                 IF r.threw THEN Undefined ELSE r.x,
                 beh)

\* the invocation noted in fired
logged(H, cb, value, fresh) ==
    [H EXCEPT !.fired[H.regOn[cb.promise]] =
        Append(@, [promise |-> cb.promise, action |-> cb.action, callback |-> cb.callback,
                   value |-> value, later |-> ~fresh])]

\* the function makeCallback returns, called with the settled value; `fresh`: the
\* call stack that scheduled the call is the one still running
promiseCallback(H, cb, value, fresh, beh) ==
    IF cb.callback.h # "null"
    THEN afterCall(callHandler(logged(H, cb, value, fresh), cb.callback, value, beh),
                   cb.promise, beh)
    ELSE passThrough(logged(H, cb, value, fresh), cb.promise, cb.action, value)

\* the function run hands to setTimeout
invokeAll(H, callbacks, value, fresh, beh) ==
    IF callbacks = <<>> THEN H
    ELSE invokeAll(promiseCallback(H, Head(callbacks), value, fresh, beh),
                   Tail(callbacks), value, fresh, beh)

\* ---------------------------------------------------------------- actions
\* Promise.defer()
Defer ==
    /\ Cardinality(Roots) < MaxRoots
    /\ nThen = 0
    /\ Commit(newPromise(Heap))
    /\ known' = known \cup {Len(_status) + 1}
    /\ deferreds' = deferreds \cup {Len(_status) + 1}
    /\ UNCHANGED <<nThen, nSettle, nLater>>

\* Promise.resolve(value)
StaticResolve(v) ==
    /\ Cardinality(Roots) < MaxRoots
    /\ nThen = 0
    /\ nSettle < MaxSettle
    /\ Commit(resolve(newPromise(Heap), Len(_status) + 1, v))
    /\ known' = known \cup {Len(_status) + 1}
    /\ nSettle' = nSettle + 1
    /\ UNCHANGED <<deferreds, nThen, nLater>>

\* Promise.reject(reason)
StaticReject(v) ==
    /\ Cardinality(Roots) < MaxRoots
    /\ nThen = 0
    /\ nSettle < MaxSettle
    /\ Commit(reject(newPromise(Heap), Len(_status) + 1, v))
    /\ known' = known \cup {Len(_status) + 1}
    /\ nSettle' = nSettle + 1
    /\ UNCHANGED <<deferreds, nThen, nLater>>

\* deferred.resolve(data)
Resolve(p, v) ==
    /\ nSettle < MaxSettle
    /\ Commit(resolve(Heap, p, v))
    /\ nSettle' = nSettle + 1
    /\ UNCHANGED <<known, deferreds, nThen, nLater>>

\* deferred.reject(reason)
Reject(p, v) ==
    /\ nSettle < MaxSettle
    /\ Commit(reject(Heap, p, v))
    /\ nSettle' = nSettle + 1
    /\ UNCHANGED <<known, deferreds, nThen, nLater>>

\* p.then(onResolve, onReject)
Then(p, onResolve, onReject) ==
    /\ nThen < MaxThen
    /\ Commit(then(Heap, p, onResolve, onReject))
    /\ nThen' = nThen + 1
    /\ known' = known \cup {Len(_status) + 1}
    /\ UNCHANGED <<deferreds, nSettle, nLater>>

\* the oldest setTimeout task runs
RunTimer(beh) ==
    /\ timers # <<>>
    /\ Commit(invokeAll([Heap EXCEPT !.timers = Tail(@)], Head(timers).callbacks,
                         Head(timers).value, Head(timers).fresh, beh))
    /\ UNCHANGED <<known, deferreds, nThen, nSettle, nLater>>

\* an exception a capability threw into the thenable that called it
escaped(r) ==
    IF r.threw THEN [r.H EXCEPT !.uncaught = Append(@, r.x)] ELSE r.H

\* a foreign thenable calls a capability it was handed, from a call stack of its own
CallLater(l, cap, y, beh) ==
    /\ nLater < MaxLater
    /\ Commit(escaped(callCapability(Heap, l, cap, y, beh)))
    /\ nLater' = nLater + 1
    /\ UNCHANGED <<known, deferreds, nThen, nSettle>>

\* the calls of Promise.race and Promise.all made so far
nStatic == Len(races) + Len(alls)

\* Promise.race(iterable)
Race(iterable) ==
    /\ nStatic < MaxStatic
    /\ Commit(race(Heap, iterable))
    /\ UNCHANGED <<known, deferreds, nThen, nSettle, nLater>>

\* Promise.all(iterable)
All(iterable) ==
    /\ nStatic < MaxStatic
    /\ Commit(all(Heap, iterable))
    /\ UNCHANGED <<known, deferreds, nThen, nSettle, nLater>>

Init ==
    /\ _status = <<>>
    /\ _value = <<>>
    /\ _doneCallbacks = <<>>
    /\ _failCallbacks = <<>>
    /\ timers = <<>>
    /\ latches = <<>>
    /\ fired = <<>>
    /\ capCalls = {}
    /\ uncaught = <<>>
    /\ regOn = <<>>
    /\ races = <<>>
    /\ alls = <<>>
    /\ known = {}
    /\ deferreds = {}
    /\ nThen = 0
    /\ nSettle = 0
    /\ nLater = 0

\* ---------------------------------------------------------------- inputs
\* the handlers a then call may be given; q is the promise the call returns
Handlers(q) ==
    {Return(HandlerValue), Throw(HandlerError)} \cup {Return(PromiseRef(p)) : p \in known \cup {q}}

\* handlers that return a foreign thenable
ThenableHandlers == {Return(Thenable(1))}

HandlerPairs(hs) ==
    UNION {{<<h, Null>>, <<Null, h>>} : h \in hs} \cup {<<Return(HandlerValue), Throw(HandlerError)>>}

\* the thenables whose `then` the callbacks of a task read at once
Needed(task) ==
    {cb.callback.v.n : cb \in {c \in {task.callbacks[i] : i \in DOMAIN task.callbacks} :
                                  c.callback.h = "return" /\ c.callback.v.k = "thenable"}}
        \cup (IF task.value.k = "thenable"
                 /\ \E i \in DOMAIN task.callbacks : task.callbacks[i].callback.h = "resolvePromise"
              THEN {task.value.n} ELSE {})

\* what the thenables do during one call stack: a behaviour for each thenable whose
\* `then` can be read in it, the first of S or nested in the first
Oracles(S, promises) ==
    UNION {{<<b1, b2>> : b2 \in (IF 2 \in S \cup Mentions(b1.calls)
                                  THEN Behaviours(2, promises) ELSE {Inert})} :
           b1 \in (IF 1 \in S THEN Behaviours(1, promises) ELSE {Inert})}

\* what the thenable of latch l may pass to a capability later
LaterArgs(l, cap) ==
    IF cap = "rejectPromise" THEN {ThenReason}
    ELSE ResolveArgs(latches[l].x.n, known)

CallOfThenable ==
    \E l \in {i \in DOMAIN latches : latches[i].x.k = "thenable"}, cap \in {"resolvePromise", "rejectPromise"} :
      \E y \in LaterArgs(l, cap) :
        \E beh \in Oracles(IF y.k = "thenable" /\ y # latches[l].x THEN {y.n} ELSE {},
                           known) :
          CallLater(l, cap, y, beh)

RunOldestTimer ==
    /\ timers # <<>>
    /\ \E beh \in Oracles(Needed(Head(timers)), known) : RunTimer(beh)

Next ==
    \/ Defer
    \/ StaticResolve(Val(nSettle + 1))
    \/ StaticReject(Val(nSettle + 1))
    \/ \E p \in deferreds : Resolve(p, Val(nSettle + 1))
    \/ \E p \in deferreds : Reject(p, Val(nSettle + 1))
    \/ \E p \in known : \E hs \in HandlerPairs(Handlers(Len(_status) + 1)) :
         Then(p, hs[1], hs[2])
    \/ RunOldestTimer

Spec == Init /\ [][Next]_vars

\* The program with fewer kinds of handler (none, or one that returns a value and
\* one that throws), and setTimeout running every task it was given.
NextFair ==
    \/ Defer
    \/ StaticResolve(Val(nSettle + 1))
    \/ StaticReject(Val(nSettle + 1))
    \/ \E p \in deferreds : Resolve(p, Val(nSettle + 1))
    \/ \E p \in deferreds : Reject(p, Val(nSettle + 1))
    \/ \E p \in known :
         \E hs \in {<<Return(HandlerValue), Throw(HandlerError)>>, <<Null, Null>>} :
           Then(p, hs[1], hs[2])
    \/ RunOldestTimer

FairSpec == Init /\ [][NextFair]_vars /\ WF_vars(RunOldestTimer)

\* The same program handed foreign thenables by its handlers.
NextThenable ==
    \/ Defer
    \/ \E p \in deferreds : Resolve(p, Val(nSettle + 1))
    \/ /\ nThen < MaxThenableThen
       /\ \E p \in known : \E h \in ThenableHandlers : Then(p, h, h)
    \/ RunOldestTimer
    \/ CallOfThenable

SpecThenable == Init /\ [][NextThenable]_vars

\* the iterables given to race and all: promises of the program and plain values
RECURSIVE Iterables(_, _)
Iterables(E, n) ==
    IF n = 0 THEN {<<>>}
    ELSE Iterables(E, n - 1) \cup {Append(s, e) : s \in {t \in Iterables(E, n - 1) : Len(t) = n - 1}, e \in E}

\* what Promise.resolve is given: a plain value, a promise, a foreign thenable
ResolveValues == {Val(nSettle + 1), Thenable(1)} \cup {PromiseRef(p) : p \in known}

\* The program calling the static functions: resolve with any value, race, all.
NextStatic ==
    \/ Defer
    \/ \E v \in ResolveValues : StaticResolve(v)
    \/ StaticReject(Val(nSettle + 1))
    \/ \E p \in deferreds : Resolve(p, Val(nSettle + 1))
    \/ \E p \in deferreds : Reject(p, Val(nSettle + 1))
    \/ \E iterable \in Iterables({PromiseRef(p) : p \in known} \cup {Item}, MaxLength) :
         Race(iterable)
    \/ \E iterable \in Iterables({PromiseRef(p) : p \in known} \cup {Item}, MaxLength) :
         All(iterable)
    \/ RunOldestTimer

SpecStatic == Init /\ [][NextStatic]_vars

\* ---------------------------------------------------------------- properties
\* the most promises a run of FairSpec makes: its roots and one for each then
MaxPromises == MaxRoots + MaxThen

\* the then calls made on promise F, by the promise each returned
RegsOn(F) == {q \in Promises : regOn[q] = F}

\* every promiseCallback invocation so far
Entries == UNION {{fired[F][i] : i \in DOMAIN fired[F]} : F \in DOMAIN fired}

\* C1: once a promise has left PENDING, no step (no later resolve or reject, from
\* whatever caller) changes its status or its value.
C1_SettlesOnce ==
    [][\A p \in DOMAIN _status :
          _status[p] # Status.PENDING => _status'[p] = _status[p] /\ _value'[p] = _value[p]]_vars

\* two settling calls were made on the one Deferred there is, the first a reject
C1_Witness ==
    /\ Roots = {1} /\ deferreds = {1}
    /\ nSettle = 2
    /\ _status[1] = Status.REJECTED /\ _value[1] = Val(1)

\* C2: every promiseCallback, and so every handler, is invoked by a setTimeout task
\* that an earlier call stack scheduled, never by the call stack (then, resolve,
\* reject) that made it eligible.
C2_HandlersRunLater ==
    \A e \in Entries : e.later

\* a handler given to then on a promise that was settled already has run
C2_Witness ==
    \E F \in Roots \ deferreds : \E i \in DOMAIN fired[F] : fired[F][i].callback.h = "return"

\* C3: on every promise the i-th promiseCallback invoked belongs to the i-th then
\* call made on it: invocation follows registration order, with no gap.
C3_RegistrationOrder ==
    \A F \in DOMAIN fired : \A i \in DOMAIN fired[F] :
        Cardinality({q \in RegsOn(F) : q <= fired[F][i].promise}) = i

\* two then calls of the program on one promise have both been dispatched
C3_Witness ==
    \E F \in DOMAIN fired :
        /\ Len(fired[F]) = 2
        /\ \A i \in DOMAIN fired[F] : fired[F][i].promise \in known

\* the promiseCallback of then call q, matching F's outcome, was invoked with F's value
Dispatched(q) ==
    /\ q \in Promises
    /\ regOn[q] # 0
    /\ LET F == regOn[q]
       IN \E i \in DOMAIN fired[F] :
         /\ fired[F][i].promise = q
         /\ fired[F][i].value = _value[F]
         /\ fired[F][i].action = (IF _status[F] = Status.FULLFILLED THEN "resolve" ELSE "reject")

\* C4: with setTimeout running every task, each then call on a promise that is or
\* becomes settled is dispatched in the end.
C4_EventuallyDispatched ==
    \A q \in 1..MaxPromises :
        (q \in Promises /\ regOn[q] # 0 /\ _status[regOn[q]] # Status.PENDING) ~> Dispatched(q)

\* a then call made on a promise rejected from the start was dispatched
C4_Witness ==
    \E q \in Promises :
        /\ regOn[q] \in Roots \ deferreds
        /\ _status[regOn[q]] = Status.REJECTED
        /\ Dispatched(q)

\* C5: no then call has two of its promiseCallbacks invoked (neither one twice nor
\* both), and the one invoked is the one for the promise's outcome.
C5_FiresOnceMatching ==
    \A F \in DOMAIN fired : \A i \in DOMAIN fired[F] :
        /\ \A j \in DOMAIN fired[F] : fired[F][i].promise = fired[F][j].promise => i = j
        /\ fired[F][i].action = "resolve" => _status[F] = Status.FULLFILLED
        /\ fired[F][i].action = "reject" => _status[F] = Status.REJECTED

\* of a then call with two handlers on a promise that ended rejected, the failure
\* handler was invoked, and then was called on the promise again
C5_Witness ==
    \E F \in DOMAIN fired :
        /\ fired[F] # <<>> /\ fired[F][1].action = "reject"
        /\ fired[F][1].callback = Throw(HandlerError)
        /\ Cardinality(RegsOn(F)) = 2

\* C6: a handler returned the promise P2, which is not the promise P of its then
\* call: P is pending while P2 is, P never holds another outcome than P2's, and
\* with no task left P holds P2's status and value.
C6_BoundToReturnedPromise ==
    \A e \in Entries :
        (e.callback.h = "return" /\ e.callback.v.k = "promise" /\ e.callback.v.n # e.promise)
        => LET P == e.promise
               P2 == e.callback.v.n
           IN /\ _status[P2] = Status.PENDING => _status[P] = Status.PENDING
              /\ _status[P] # Status.PENDING =>
                    _status[P] = _status[P2] /\ _value[P] = _value[P2]
              /\ timers = <<>> => _status[P] = _status[P2] /\ _value[P] = _value[P2]

\* a handler returned a Deferred's promise that the second settling call fulfilled,
\* and the promise of the then call is fulfilled with that call's value
C6_Witness ==
    \E e \in Entries :
        /\ e.callback.h = "return" /\ e.callback.v.k = "promise"
        /\ e.callback.v.n \in deferreds
        /\ _status[e.promise] = Status.FULLFILLED
        /\ _value[e.promise] = Val(2)

\* C7: a handler that returned the promise of its own then call leaves that promise
\* rejected with the TypeError of line 328.
C7_SelfReturnRejected ==
    \A e \in Entries :
        e.callback = Return(PromiseRef(e.promise))
        => _status[e.promise] = Status.REJECTED /\ _value[e.promise] = TypeErrorSamePromise

\* a handler returned the promise of its own then call
C7_Witness ==
    \E e \in Entries : e.callback = Return(PromiseRef(e.promise))

\* C8: a capability called when the latch of its then.call was set already (by the
\* same or by the other capability) changes neither status nor value of the
\* downstream promise.
C8_LatchIgnoresLaterCalls ==
    \A n \in capCalls : n.wasInvoked => ~n.changed

\* a capability was called with the latch set and the downstream promise pending
C8_Witness ==
    \E n \in capCalls : n.wasInvoked /\ n.after[1] = Status.PENDING

\* C9: a thenable's first capability call being resolvePromise(x) with x the
\* thenable itself leaves the downstream promise settled, rejected with the
\* TypeError of line 371 if it was pending, and no exception leaves the core.
C9_SelfResolutionRejected ==
    /\ \A n \in capCalls :
          (n.cap = "resolvePromise" /\ n.self /\ ~n.wasInvoked)
          => /\ n.after[1] # Status.PENDING
             /\ n.changed => n.after = <<Status.REJECTED, TypeErrorSameThenable>>
    /\ uncaught = <<>>

\* C10: a handler that threw e leaves the promise of its then call rejected with e,
\* whatever promiseCallback does after its catch.
C10_ThrowRejects ==
    \A e \in Entries :
        e.callback.h = "throw"
        => _status[e.promise] = Status.REJECTED /\ _value[e.promise] = e.callback.v

\* a handler threw
C10_Witness ==
    \E e \in Entries : e.callback.h = "throw"

\* C11: a then call (done, fail and catch are then calls) whose callback for the
\* source's outcome is no function leaves its promise with the status and the value
\* of the source, link after link of a chain.
C11_PassThrough ==
    \A F \in DOMAIN fired : \A i \in DOMAIN fired[F] :
        fired[F][i].callback = Null
        => /\ _status[fired[F][i].promise] = _status[F]
           /\ _value[fired[F][i].promise] = _value[F]

\* a rejection went through two links of a chain that had no failure handler
C11_Witness ==
    \E q \in Promises :
        /\ regOn[q] # 0 /\ regOn[regOn[q]] # 0 /\ regOn[regOn[q]] \in Roots
        /\ \E i \in DOMAIN fired[regOn[q]] :
              fired[regOn[q]][i].promise = q /\ fired[regOn[q]][i].callback = Null
        /\ \E i \in DOMAIN fired[regOn[regOn[q]]] :
              /\ fired[regOn[regOn[q]]][i].promise = regOn[q]
              /\ fired[regOn[regOn[q]]][i].callback = Null
        /\ _status[q] = Status.REJECTED
        /\ _value[q] = _value[regOn[regOn[q]]]

\* the inputs of race r (by index) that are settled
SettledInputs(r) ==
    {i \in DOMAIN races[r].inputs : _status[races[r].inputs[i]] # Status.PENDING}

\* The input of race r (by index) that decides it: the first of the sequence among
\* those settled when race was called; if there was none, the one settled by the
\* earliest settling call (the n-th settling call of the program passes Val(n)).
FirstSettled(r) ==
    IF races[r].atCall # {}
    THEN CHOOSE i \in races[r].atCall : \A j \in races[r].atCall : i <= j
    ELSE CHOOSE i \in SettledInputs(r) :
            \A j \in SettledInputs(r) :
                _value[races[r].inputs[i]].n <= _value[races[r].inputs[j]].n

\* C12: the promise of a race is settled only once an input is, with the status and
\* the value of the input that settled first (of the first in the sequence among
\* the inputs settled at the call), whatever the others do later; tasks run oldest
\* first, and with no task left the promise is settled when an input is.
C12_RaceFirstSettled ==
    \A r \in DOMAIN races :
        /\ _status[races[r].promise] # Status.PENDING
           => /\ SettledInputs(r) # {}
              /\ _status[races[r].promise] = _status[races[r].inputs[FirstSettled(r)]]
              /\ _value[races[r].promise] = _value[races[r].inputs[FirstSettled(r)]]
        /\ (timers = <<>> /\ SettledInputs(r) # {}) => _status[races[r].promise] # Status.PENDING

\* two pending promises raced, the second was settled first and the first after it
\* with the other outcome, and all tasks have run
C12_Witness ==
    \E r \in DOMAIN races :
        /\ Len(races[r].inputs) = 2 /\ races[r].atCall = {}
        /\ SettledInputs(r) = {1, 2}
        /\ FirstSettled(r) = 2
        /\ _status[races[r].inputs[1]] # _status[races[r].inputs[2]]
        /\ timers = <<>>

\* every input of all a is fulfilled
AllFulfilled(a) ==
    \A i \in DOMAIN alls[a].inputs : _status[alls[a].inputs[i]] = Status.FULLFILLED

\* the values of the inputs of all a, by index
InputValues(a) ==
    Array([i \in DOMAIN alls[a].inputs |-> _value[alls[a].inputs[i]]])

\* C13: the promise of an all over one input or more is fulfilled only when every
\* input is, with the inputs' values at the inputs' indices (a plain element being
\* its own value), in whatever order the inputs were fulfilled; and with every input
\* fulfilled and no task left it is fulfilled.
C13_AllInOrder ==
    \A a \in DOMAIN alls :
        alls[a].length > 0
        => /\ _status[alls[a].promise] = Status.FULLFILLED
              => AllFulfilled(a) /\ _value[alls[a].promise] = InputValues(a)
           /\ (timers = <<>> /\ AllFulfilled(a))
              => /\ _status[alls[a].promise] = Status.FULLFILLED
                 /\ _value[alls[a].promise] = InputValues(a)

\* all over two pending promises, the second fulfilled before the first, is fulfilled
C13_Witness ==
    \E a \in DOMAIN alls :
        /\ alls[a].length = 2
        /\ _status[alls[a].promise] = Status.FULLFILLED
        /\ _value[alls[a].inputs[1]] = Val(2)
        /\ _value[alls[a].inputs[2]] = Val(1)

\* C14: once the reject callback of an input of all was invoked, the promise is
\* rejected with the reason of the input whose reject callback was invoked first,
\* whatever is dispatched for the other inputs later; and with an input rejected and
\* no task left the promise is rejected.
C14_AllRejectsFirst ==
    \A a \in DOMAIN alls :
        /\ alls[a].firstRejected # 0
           => /\ _status[alls[a].promise] = Status.REJECTED
              /\ _value[alls[a].promise] = _value[alls[a].inputs[alls[a].firstRejected]]
        /\ (timers = <<>>
              /\ \E i \in DOMAIN alls[a].inputs : _status[alls[a].inputs[i]] = Status.REJECTED)
           => alls[a].firstRejected # 0

\* the second input of an all was rejected, then the first with another reason, and
\* both rejections were dispatched
C14_Witness ==
    \E a \in DOMAIN alls :
        /\ alls[a].length = 2 /\ alls[a].firstRejected = 2
        /\ _status[alls[a].inputs[1]] = Status.REJECTED
        /\ _value[alls[a].inputs[1]] # _value[alls[a].inputs[2]]
        /\ timers = <<>>

\* C15: the promise of an all over an iterable of length 0 is fulfilled with an empty
\* array when all returns.
C15_AllEmptyFulfilled ==
    \A a \in DOMAIN alls :
        alls[a].length = 0
        => /\ _status[alls[a].promise] = Status.FULLFILLED
           /\ _value[alls[a].promise] = Array(<<>>)

\* C16: race and all return the promise they made and settle.
C16_ReturnsResultPromise ==
    /\ \A r \in DOMAIN races : races[r].returned = PromiseRef(races[r].promise)
    /\ \A a \in DOMAIN alls : alls[a].returned = PromiseRef(alls[a].promise)

\* C17: a promise made by Promise.resolve(value) is never fulfilled with a promise or
\* with a foreign thenable as its value.
C17_ResolveAssimilates ==
    \A p \in (known \ deferreds) :
        (regOn[p] = 0 /\ _status[p] = Status.FULLFILLED)
        => _value[p].k \notin {"promise", "thenable"}

\* C18: no exception leaves the core's code towards the caller of a capability (or
\* towards setTimeout).
C18_NothingEscapes ==
    uncaught = <<>>

\* C19: a thenable's first call of resolvePromise(y), made while the downstream
\* promise P is pending, leaves P as the whole resolution of promiseCallback would:
\* rejected with the TypeError of line 328 when y is P itself, fulfilled with y when
\* y is a plain value.
C19_ResolvesAsProcedure ==
    \A n \in capCalls :
        (n.cap = "resolvePromise" /\ ~n.wasInvoked
            /\ (n.changed \/ n.after[1] = Status.PENDING))
        => /\ n.own => n.after = <<Status.REJECTED, TypeErrorSamePromise>>
           /\ n.y.k = "value" => n.after = <<Status.FULLFILLED, n.y>>

\* C20: after every call of then, resolve or reject and after every task, a promise
\* that is not pending has both callback lists empty: settling empties them in the
\* same call stack, and so does then on a settled promise.
C20_ListsEmptyUnlessPending ==
    \A p \in Promises :
        _status[p] # Status.PENDING => _doneCallbacks[p] = <<>> /\ _failCallbacks[p] = <<>>

\* then was called twice on a promise settled from the start, and a task with the
\* callbacks of one of the calls has not run yet
C20_Witness ==
    \E F \in Roots \ deferreds :
        /\ Cardinality(RegsOn(F)) = 2
        /\ Len(fired[F]) < 2
        /\ timers # <<>>

====
